---- MODULE Spec2Model ----
(***************************************************************************)
(* Model of the Mandelbrot renderer of src/src/main.rs: escape_time,       *)
(* pixel_en_point, render and the band dispatcher of main (crossbeam       *)
(* scope, one worker per band, join, then ecrire_image).                   *)
(*                                                                         *)
(* f64 is modelled as a binary floating-point format with round-to-nearest *)
(* ties-to-even, a significand of Precision bits and a smallest step of    *)
(* 2^-FracBits (the subnormal spacing).  A value is held as the integer    *)
(* number of such steps, so that equality of floats is equality of         *)
(* integers.  Every arithmetic operation rounds its exact result, as the   *)
(* machine does; only the width is reduced (f64: 53 and 1074).             *)
(***************************************************************************)
EXTENDS Integers, Sequences, FiniteSets

VARIABLES bords, super_ga, infer_dr, pixels, pc, i, workers, written, image,
          call, ret

vars == <<bords, super_ga, infer_dr, pixels, pc, i, workers, written, image,
          call, ret>>

(* ------------------------------ bounds -------------------------------- *)

\* significand bits of the modelled float format
Precision == 8
\* the smallest positive float is 2^-FracBits
FracBits == 10
\* geometries of the concurrent runs: W in 1..MaxW, H in 1..MaxH
MaxW == 3
MaxH == 2
\* geometries of the dispatcher's partition alone: H in 1..MaxBandH
MaxBandW == 2
MaxBandH == 66
\* iteration limits tried on escape_time alone
MaxLimit == 5
\* geometries of render() and pixel_en_point alone
MaxRenderW == 3
MaxRenderH == 2

(* ------------------------------- f64 ---------------------------------- *)

RECURSIVE Pow2(_)
Pow2(k) == IF k <= 0 THEN 1 ELSE 2 * Pow2(k - 1)

Scale == Pow2(FracBits)

Abs(x) == IF x < 0 THEN -x ELSE x

Max(a, b) == IF a >= b THEN a ELSE b

Min(a, b) == IF a <= b THEN a ELSE b

\* the least integer that no longer fits the significand
Mantissa == Pow2(Precision)

\* spacing of the floats of magnitude q (in steps): one unit in the last place
RECURSIVE Ulp(_)
Ulp(q) == IF q < Mantissa THEN 1 ELSE 2 * Ulp(q \div 2)

\* the float nearest to num/den steps (den > 0), ties to the even significand
RoundRat(num, den) ==
    LET s == IF num < 0 THEN -1 ELSE 1
        a == Abs(num)
        g == Ulp(a \div den)
        k == a \div (den * g)
        r == a - k * den * g
        up == 2 * r > den * g \/ (2 * r = den * g /\ k % 2 = 1)
    IN  s * g * (IF up THEN k + 1 ELSE k)

fadd(a, b) == RoundRat(a + b, 1)

fsub(a, b) == RoundRat(a - b, 1)

fmul(a, b) == RoundRat(a * b, Scale)

fdiv(a, b) == IF b > 0 THEN RoundRat(a * Scale, b) ELSE RoundRat((-a) * Scale, -b)

\* `n as f64`
as_f64(n) == RoundRat(n * Scale, 1)

\* the float k / 2^s, exact when k has at most Precision bits and s <= FracBits
Dy(k, s) == k * Pow2(FracBits - s)

(* ----------------------------- Complex -------------------------------- *)

Complex(re, im) == [re |-> re, im |-> im]

cadd(a, b) == Complex(fadd(a.re, b.re), fadd(a.im, b.im))

cmul(a, b) == Complex(fsub(fmul(a.re, b.re), fmul(a.im, b.im)),
                      fadd(fmul(a.re, b.im), fmul(a.im, b.re)))

norm_sqr(z) == fadd(fmul(z.re, z.re), fmul(z.im, z.im))

(* --------------------------- escape_time ------------------------------ *)

None == <<>>

Some(x) == <<x>>

\* the loop body's first statement: z = z * z + c
Iterate(z, c) == cadd(cmul(z, z), c)

\* a slip of the test: the threshold itself taken as escaped
EscapedAtFour(z) == norm_sqr(z) >= Dy(4, 0)

\* the escape threshold, 4.0
Four == Dy(4, 0)

\* the loop body's test: z.norm_sqr() > 4.0
Escaped(z) == norm_sqr(z) > Four

\* the loop's state: the next index n, z, and the value returned once the
\* function has returned (fin)
LoopStart == [n |-> 0, z |-> Complex(0, 0), fin |-> FALSE, val |-> None]

\* a slip of the loop body: z tested before it is updated
escape_step_test_first(s, c, limit) ==
    IF s.fin THEN s
    ELSE IF s.n >= limit THEN [s EXCEPT !.fin = TRUE, !.val = None]
    ELSE IF norm_sqr(s.z) > Dy(4, 0) THEN [s EXCEPT !.fin = TRUE, !.val = Some(s.n)]
    ELSE [s EXCEPT !.z = Iterate(s.z, c), !.n = s.n + 1]

\* one pass of `for i in 0..limit`: leave with None when the range is over,
\* else update z and leave with Some(i) when it escaped
escape_step(s, c, limit) ==
    IF s.fin THEN s
    ELSE IF s.n >= limit THEN [s EXCEPT !.fin = TRUE, !.val = None]
    ELSE LET z1 == Iterate(s.z, c)
         IN  IF Escaped(z1) THEN [s EXCEPT !.z = z1, !.fin = TRUE, !.val = Some(s.n)]
             ELSE [s EXCEPT !.z = z1, !.n = s.n + 1]

\* the number of binary digits of n
RECURSIVE BitLen(_)
BitLen(n) == IF n <= 0 THEN 0 ELSE 1 + BitLen(n \div 2)

\* 2^k passes of the loop, one after the other
RECURSIVE escape_run(_, _, _, _)
escape_run(s, c, limit, k) ==
    IF s.fin THEN s
    ELSE IF k = 0 THEN escape_step(s, c, limit)
    ELSE escape_run(escape_run(s, c, limit, k - 1), c, limit, k - 1)

\* the loop run to its end: at most limit + 1 passes, and 2^BitLen(limit) > limit
escape_time(c, limit) == escape_run(LoopStart, c, limit, BitLen(limit)).val

(* -------------------------- pixel_en_point ---------------------------- *)

\* a slip of the mapping: width and height of the image taken for one another
pixel_en_point_swapped(b, pixel, ul, lr) ==
    LET large == fsub(lr.re, ul.re)
        haute == fsub(ul.im, lr.im)
    IN  Complex(fadd(ul.re, fdiv(fmul(as_f64(pixel[1]), large), as_f64(b[2]))),
                fsub(ul.im, fdiv(fmul(as_f64(pixel[2]), haute), as_f64(b[1]))))

pixel_en_point(b, pixel, ul, lr) ==
    LET large == fsub(lr.re, ul.re)
        haute == fsub(ul.im, lr.im)
    IN  Complex(fadd(ul.re, fdiv(fmul(as_f64(pixel[1]), large), as_f64(b[1]))),
                fsub(ul.im, fdiv(fmul(as_f64(pixel[2]), haute), as_f64(b[2]))))

(* ------------------------------ render -------------------------------- *)

\* the iteration limit render() passes to escape_time
RenderLimit == 255

\* a slip of the grey level: the escape index written as it is
IntensityRaw(t) == IF t = None THEN 0 ELSE t[1] % 256

\* `255 - i as u8`: the cast keeps the low byte, the subtraction is on u8
Intensity(t) == IF t = None THEN 0 ELSE 255 - (t[1] % 256)

\* the value render() computes for pixel (colonne, ligne) of its band
PixelValue(b, colonne, ligne, ul, lr) ==
    Intensity(escape_time(pixel_en_point(b, <<colonne, ligne>>, ul, lr), RenderLimit))

\* the index of the slice render() writes for (colonne, ligne), from 0
PixelIndex(b, colonne, ligne) == ligne * b[1] + colonne

\* the assertion at the head of render()
AssertLen(len, b) == len = b[1] * b[2]

\* the two nested loops of render() over a slice px, from (ligne, colonne) on
RECURSIVE render_loop(_, _, _, _, _, _)
render_loop(px, b, ul, lr, ligne, colonne) ==
    IF ligne >= b[2] THEN px
    ELSE IF colonne >= b[1] THEN render_loop(px, b, ul, lr, ligne + 1, 0)
    ELSE render_loop([px EXCEPT ![PixelIndex(b, colonne, ligne) + 1] =
                                   PixelValue(b, colonne, ligne, ul, lr)],
                     b, ul, lr, ligne, colonne + 1)

\* render(): the slice after the call, or "panic" when the assertion fails
render(px, b, ul, lr) ==
    IF AssertLen(Len(px), b) THEN render_loop(px, b, ul, lr, 0, 0) ELSE <<-1>>

Zeros(n) == [k \in 1..n |-> 0]

(* ---------------------------- dispatcher ------------------------------ *)

exetrons == 32

lig_par_bande(b) == b[2] \div exetrons + 1

\* a slip of the chunk size: rows of H elements instead of W
ChunkSizeByHeight(b) == lig_par_bande(b) * b[2]

\* pixels.chunks_mut(size): chunk k starts at ChunkOff and holds ChunkLen
\* elements; the last chunk holds what is left
ChunkSize(b) == lig_par_bande(b) * b[1]

NumChunks(total, size) == (total + size - 1) \div size

\* a slip of the split: each chunk begins on the last element of the one before
ChunkOffOverlap(k, size) == IF k = 0 THEN 0 ELSE k * size - 1

ChunkOff(k, size) == k * size

ChunkLen(k, total, size) == Min(size, total - ChunkOff(k, size))

\* a slip of the first row of a band: the band height without its + 1
BandTopTrunc(b, k) == (b[2] \div exetrons) * k

\* the locals of one pass of the spawning loop, for band k
BandTop(b, k) == lig_par_bande(b) * k

BandHaute(b, len) == len \div b[1]

NoWorker ==
    [st |-> "unspawned", off |-> 0, len |-> 0, top |-> 0, bande_bords |-> <<0, 0>>,
     bande_supg |-> Complex(0, 0), bande_infd |-> Complex(0, 0),
     ligne |-> 0, colonne |-> 0]

NewWorker(b, k, total, ul, lr) ==
    LET len == ChunkLen(k, total, ChunkSize(b))
        top == BandTop(b, k)
        haute == BandHaute(b, len)
    IN  [st |-> "spawned", off |-> ChunkOff(k, ChunkSize(b)), len |-> len,
         top |-> top, bande_bords |-> <<b[1], haute>>,
         bande_supg |-> pixel_en_point(b, <<0, top>>, ul, lr),
         bande_infd |-> pixel_en_point(b, <<b[1], top + haute>>, ul, lr),
         ligne |-> 0, colonne |-> 0]

NumBands == NumChunks(Len(pixels), ChunkSize(bords))

Bands == 0..(NumBands - 1)

(* ------------------------------- main --------------------------------- *)

\* the well-formed viewports tried: <<upper left, lower right>>
Viewports ==
    { <<Complex(Dy(-2, 0), Dy(1, 0)), Complex(Dy(1, 0), Dy(-1, 0))>>,
      <<Complex(Dy(-86, 6), Dy(72, 6)), Complex(Dy(23, 6), Dy(-72, 6))>>,
      <<Complex(Dy(-3, 1), Dy(5, 2)), Complex(Dy(3, 2), Dy(-1, 2))>> }

NoCall == [fn |-> "main"]

\* main after the arguments are parsed and the buffer is allocated
InitMain(W, H, vp) ==
    /\ bords = <<W, H>>
    /\ super_ga = vp[1]
    /\ infer_dr = vp[2]
    /\ pixels = Zeros(W * H)
    /\ pc = "spawn"
    /\ i = 0
    /\ workers = [k \in 0..(NumChunks(W * H, ChunkSize(<<W, H>>)) - 1) |-> NoWorker]
    /\ written = [k \in 1..(W * H) |-> {}]
    /\ image = <<>>
    /\ call = NoCall
    /\ ret = <<>>

Init == \E W \in 1..MaxW, H \in 1..MaxH, vp \in Viewports : InitMain(W, H, vp)

\* one pass of `for (i, bande) in bandes.into_iter().enumerate()`
Spawn ==
    /\ pc = "spawn"
    /\ i < NumBands
    /\ workers' = [workers EXCEPT ![i] =
                       NewWorker(bords, i, Len(pixels), super_ga, infer_dr)]
    /\ i' = i + 1
    /\ UNCHANGED <<bords, super_ga, infer_dr, pixels, pc, written, image, call, ret>>

\* the loop is over: the closure returns and the scope waits for its threads
EndSpawn ==
    /\ pc = "spawn"
    /\ i >= NumBands
    /\ pc' = "join"
    /\ UNCHANGED <<bords, super_ga, infer_dr, pixels, i, workers, written, image,
                   call, ret>>

\* a spawned thread enters render(): the assertion, then the loops begin
WorkerStart(w) ==
    /\ workers[w].st = "spawned"
    /\ workers' = [workers EXCEPT ![w].st =
                       IF ~AssertLen(workers[w].len, workers[w].bande_bords)
                       THEN "panicked"
                       ELSE IF workers[w].bande_bords[1] = 0
                               \/ workers[w].bande_bords[2] = 0
                       THEN "done" ELSE "render"]
    /\ UNCHANGED <<bords, super_ga, infer_dr, pixels, pc, i, written, image, call, ret>>

\* one pass of the inner loop of render() in thread w: one pixel written
WorkerPixel(w) ==
    LET me == workers[w]
        b == me.bande_bords
        idx == PixelIndex(b, me.colonne, me.ligne)
        lastcol == me.colonne + 1 >= b[1]
        lastrow == me.ligne + 1 >= b[2]
    IN  /\ me.st = "render"
        /\ IF idx >= me.len
           THEN /\ workers' = [workers EXCEPT ![w].st = "panicked"]
                /\ UNCHANGED <<pixels, written>>
           ELSE /\ pixels' = [pixels EXCEPT ![me.off + idx + 1] =
                                  PixelValue(b, me.colonne, me.ligne,
                                             me.bande_supg, me.bande_infd)]
                /\ written' = [written EXCEPT ![me.off + idx + 1] = @ \cup {w}]
                /\ workers' = [workers EXCEPT
                                  ![w].colonne = IF lastcol THEN 0 ELSE @ + 1,
                                  ![w].ligne = IF lastcol THEN @ + 1 ELSE @,
                                  ![w].st = IF lastcol /\ lastrow THEN "done" ELSE @]
        /\ UNCHANGED <<bords, super_ga, infer_dr, pc, i, image, call, ret>>

\* a slip of the barrier: the scope returns when the first thread has ended
JoinedFirst == workers[0].st \in {"done", "panicked"}

\* every thread of the scope has ended
Joined == \A w \in Bands : workers[w].st \in {"done", "panicked"}

\* crossbeam::scope returns once every thread it spawned has been joined
Join ==
    /\ pc = "join"
    /\ Joined
    /\ pc' = IF \E w \in Bands : workers[w].st = "panicked" THEN "panic" ELSE "encode"
    /\ UNCHANGED <<bords, super_ga, infer_dr, pixels, i, workers, written, image,
                   call, ret>>

\* ecrire_image(&args[1], &pixels, bords): the encoder is handed the buffer
ecrire_image ==
    /\ pc = "encode"
    /\ image' = pixels
    /\ pc' = "done"
    /\ UNCHANGED <<bords, super_ga, infer_dr, pixels, i, workers, written, call, ret>>

Next ==
    \/ Spawn
    \/ EndSpawn
    \/ \E w \in Bands : WorkerStart(w)
    \/ \E w \in Bands : WorkerPixel(w)
    \/ Join
    \/ ecrire_image

Spec == Init /\ [][Next]_vars

(* ------------------- the dispatcher's partition alone ------------------ *)

\* main with taller images: the spawning loop, the threads not yet scheduled
InitBands ==
    \E W \in 1..MaxBandW, H \in 1..MaxBandH :
        InitMain(W, H, <<Complex(Dy(-2, 0), Dy(1, 0)), Complex(Dy(1, 0), Dy(-1, 0))>>)

NextBands ==
    \/ Spawn
    \/ EndSpawn

SpecBands == InitBands /\ [][NextBands]_vars

(* --------------------------- single calls ----------------------------- *)

\* the variables of main while one function is called on its own
Idle ==
    /\ i = 0
    /\ workers = <<>>
    /\ written = <<>>
    /\ image = <<>>

\* the points escape_time is called on: a grid of step 1/4 around the set
Grid == { Complex(Dy(a, 2), Dy(b, 2)) : a \in -10..10, b \in -6..6 }

InitEscape ==
    /\ Idle
    /\ bords = <<1, 1>>
    /\ super_ga = Complex(0, 0)
    /\ infer_dr = Complex(0, 0)
    /\ pixels = <<>>
    /\ pc = "call"
    /\ \E c \in Grid, limit \in 1..MaxLimit :
           call = [fn |-> "escape_time", c |-> c, limit |-> limit]
    /\ ret = None

CallEscape ==
    /\ pc = "call"
    /\ call.fn = "escape_time"
    /\ ret' = escape_time(call.c, call.limit)
    /\ pc' = "return"
    /\ UNCHANGED <<bords, super_ga, infer_dr, pixels, i, workers, written, image, call>>

SpecEscape == InitEscape /\ [][CallEscape]_vars

\* the viewports pixel_en_point and render are called on
CallViewports ==
    Viewports \cup
    { <<Complex(Dy(-1, 0), Dy(1, 0)), Complex(Dy(1, 0), Dy(-1, 0))>>,
      <<Complex(Dy(-121, 6), Dy(77, 6)), Complex(Dy(58, 6), Dy(-53, 6))>> }

\* the geometries and pixels pixel_en_point is called on: every pixel of the
\* closed range of the small geometries, and those of the repository's test
PointCalls ==
    { <<<<W, H>>, <<col, row>>>> :
          W \in 1..MaxRenderW, H \in 1..MaxRenderH,
          col \in 0..MaxRenderW, row \in 0..MaxRenderH }
    \cup { <<<<100, 100>>, px>> : px \in {<<25, 75>>, <<0, 0>>, <<100, 100>>, <<50, 50>>} }

InitPoint ==
    /\ Idle
    /\ pixels = <<>>
    /\ pc = "call"
    /\ \E g \in PointCalls, vp \in CallViewports :
           /\ g[2][1] <= g[1][1]
           /\ g[2][2] <= g[1][2]
           /\ bords = g[1]
           /\ call = [fn |-> "pixel_en_point", pixel |-> g[2]]
           /\ super_ga = vp[1]
           /\ infer_dr = vp[2]
    /\ ret = Complex(0, 0)

CallPoint ==
    /\ pc = "call"
    /\ call.fn = "pixel_en_point"
    /\ ret' = pixel_en_point(bords, call.pixel, super_ga, infer_dr)
    /\ pc' = "return"
    /\ UNCHANGED <<bords, super_ga, infer_dr, pixels, i, workers, written, image, call>>

SpecPoint == InitPoint /\ [][CallPoint]_vars

\* what the slice handed to render() may hold before the call
Fills == {0, 9}

InitRender ==
    /\ Idle
    /\ pc = "call"
    /\ \E W \in 1..MaxRenderW, H \in 1..MaxRenderH, vp \in CallViewports, f \in Fills :
           /\ bords = <<W, H>>
           /\ super_ga = vp[1]
           /\ infer_dr = vp[2]
           /\ pixels = [k \in 1..(W * H) |-> f]
           /\ call = [fn |-> "render", fill |-> f]
    /\ ret = <<>>

CallRender ==
    /\ pc = "call"
    /\ call.fn = "render"
    /\ pixels' = render(pixels, bords, super_ga, infer_dr)
    /\ pc' = "return"
    /\ UNCHANGED <<bords, super_ga, infer_dr, i, workers, written, image, call, ret>>

SpecRender == InitRender /\ [][CallRender]_vars

(* ======================= properties of main =========================== *)

\* the whole buffer rendered by one call of render() with the full geometry
\* and the full viewport
SingleRender == render(Zeros(bords[1] * bords[2]), bords, super_ga, infer_dr)

\* C1: the buffer the dispatcher's bands produce, as handed to the encoder, is
\* byte for byte the buffer one render() call over the whole image produces.
WorkerCountIndependence == pc = "done" => image = SingleRender

\* the band whose rows hold buffer index k (from 1)
RowOf(k) == (k - 1) \div bords[1]

OwnsRow(w, row) ==
    /\ workers[w].st # "unspawned"
    /\ workers[w].top <= row
    /\ row < workers[w].top + workers[w].bande_bords[2]

SliceOf(w) == (workers[w].off + 1)..(workers[w].off + workers[w].len)

\* C3: in every interleaving no two workers hold or write the same element of
\* the buffer: the slices of the spawned workers are pairwise disjoint, an
\* element is written only by the worker whose band contains its row, and once
\* the workers are joined every element has exactly one writer.
DisjointWrites ==
    /\ \A v \in Bands, w \in Bands :
           (v # w /\ workers[v].st # "unspawned" /\ workers[w].st # "unspawned")
               => SliceOf(v) \cap SliceOf(w) = {}
    /\ \A k \in 1..Len(pixels) :
           /\ Cardinality(written[k]) <= 1
           /\ \A w \in written[k] : k \in SliceOf(w) /\ OwnsRow(w, RowOf(k))
    /\ pc \in {"encode", "done"} =>
           \A k \in 1..Len(pixels) :
               /\ Cardinality(written[k]) = 1
               /\ Cardinality({w \in Bands : OwnsRow(w, RowOf(k))}) = 1

\* two workers are both in the middle of render(), each having written
DisjointWritesWitness ==
    \E v \in Bands, w \in Bands :
        /\ v # w
        /\ workers[v].st = "render" /\ workers[w].st = "render"
        /\ \E k \in 1..Len(pixels) : written[k] = {v}
        /\ \E k \in 1..Len(pixels) : written[k] = {w}

\* once the scope has returned, a step leaves the buffer as it is
NoLateWrite ==
    (pc = "encode" \/ pc = "done") => (pixels' = pixels /\ written' = written)

\* C4: ecrire_image is reached only after every spawned worker has ended its
\* render() call; then every element of the buffer has been written, the
\* encoder receives the buffer as it is, and no write follows.
JoinBarrier ==
    /\ [](pc \in {"encode", "done"} =>
            /\ i = NumBands
            /\ \A w \in Bands : workers[w].st = "done"
            /\ \A k \in 1..Len(pixels) : written[k] # {})
    /\ [](pc = "done" => image = pixels)
    /\ [][NoLateWrite]_vars

\* the encoder has been handed the buffer of a run of several workers
JoinBarrierWitness ==
    /\ pc = "done"
    /\ NumBands >= 2
    /\ image = pixels
    /\ \A w \in Bands : workers[w].st = "done"

(* ================= properties of the dispatcher's bands ================ *)

Spawned == { w \in Bands : workers[w].st # "unspawned" }

Haute(w) == workers[w].bande_bords[2]

\* the area of the first n bands
RECURSIVE SumAreas(_)
SumAreas(n) == IF n = 0 THEN 0 ELSE SumAreas(n - 1) + bords[1] * Haute(n - 1)

\* C2: the bands tile the rows: band w starts at row lig_par_bande * w, which is
\* where band w - 1 ends (no gap, no overlap), holds len / W >= 1 rows, and
\* once all are spawned they end at row H, every row lies in exactly one band
\* and the areas add up to W * H.
Tiling ==
    /\ \A w \in Spawned :
           /\ workers[w].top = lig_par_bande(bords) * w
           /\ Haute(w) = workers[w].len \div bords[1]
           /\ Haute(w) >= 1
           /\ workers[w].top = IF w = 0 THEN 0 ELSE workers[w - 1].top + Haute(w - 1)
    /\ pc = "join" =>
           /\ Spawned = Bands
           /\ workers[NumBands - 1].top + Haute(NumBands - 1) = bords[2]
           /\ \A row \in 0..(bords[2] - 1) :
                  Cardinality({w \in Bands : OwnsRow(w, row)}) = 1
           /\ SumAreas(NumBands) = bords[1] * bords[2]

\* all bands of an image whose height is no multiple of the band height are
\* spawned, the last one shorter than the others
TilingWitness ==
    /\ pc = "join"
    /\ NumBands >= 2
    /\ Haute(0) >= 2
    /\ Haute(NumBands - 1) < Haute(0)

CeilDiv(a, b) == (a + b - 1) \div b

\* C5: every band has ceil(H / exetrons) rows, except possibly the last, which
\* has at least one row and no more than the others.
BandHeightRule ==
    \A w \in Spawned :
        IF w < NumBands - 1
        THEN Haute(w) = CeilDiv(bords[2], exetrons)
        ELSE 1 <= Haute(w) /\ Haute(w) <= CeilDiv(bords[2], exetrons)

\* C10: every band handed to a worker is a whole number of rows of width W, so
\* the assertion at the head of render() holds for what each worker is given,
\* and nothing panics.
AssertionHolds ==
    /\ pc # "panic"
    /\ \A w \in Spawned :
           /\ workers[w].st # "panicked"
           /\ workers[w].bande_bords = <<bords[1], workers[w].len \div bords[1]>>
           /\ workers[w].len % bords[1] = 0
           /\ AssertLen(workers[w].len, workers[w].bande_bords)

\* a last band holding the remainder, shorter than a full chunk, is handed over
AssertionWitness ==
    \E w \in Spawned :
        /\ w = NumBands - 1
        /\ w >= 1
        /\ bords[1] >= 2
        /\ workers[w].len < workers[0].len
        /\ AssertLen(workers[w].len, workers[w].bande_bords)

(* ===================== properties of escape_time ====================== *)

\* the sequence z_0 = 0, z_{n+1} = z_n^2 + c
RECURSIVE Orbit(_, _)
Orbit(c, n) == IF n = 0 THEN Complex(0, 0) ELSE Iterate(Orbit(c, n - 1), c)

Returned(fn) == pc = "return" /\ call.fn = fn

\* C6 as stated: Some(i) exactly when i is the first index below the limit at
\* which the squared norm of z_i exceeds 4, None exactly when there is none.
EscapeIndexOfZi ==
    Returned("escape_time") =>
        IF ret = None
        THEN \A j \in 0..(call.limit - 1) : ~Escaped(Orbit(call.c, j))
        ELSE /\ ret[1] < call.limit
             /\ \A j \in 0..(ret[1] - 1) : ~Escaped(Orbit(call.c, j))
             /\ Escaped(Orbit(call.c, ret[1]))

\* C6 amended: Some(i) exactly when i is the first index below the limit at
\* which the squared norm of z_{i+1}, the iterate computed in pass i of the loop,
\* exceeds 4; None exactly when there is no such index.
EscapeIndex ==
    Returned("escape_time") =>
        IF ret = None
        THEN \A j \in 0..(call.limit - 1) : ~Escaped(Orbit(call.c, j + 1))
        ELSE /\ ret = Some(ret[1])
             /\ ret[1] < call.limit
             /\ \A j \in 0..(ret[1] - 1) : ~Escaped(Orbit(call.c, j + 1))
             /\ Escaped(Orbit(call.c, ret[1] + 1))

\* a point that escapes in a later pass, and so after passes that did not
EscapeIndexWitness ==
    /\ Returned("escape_time")
    /\ ret # None
    /\ ret[1] >= 2

Two == Complex(Dy(2, 0), 0)

\* C7 as stated: Some(0) for c = (2, 0) and for every c of norm above 4.
ImmediateEscapeAtTwo ==
    Returned("escape_time") =>
        ((call.c = Two \/ norm_sqr(call.c) > Dy(16, 0)) => ret = Some(0))

\* C7 amended: Some(0) for every c whose first iterate, c itself, has a squared
\* norm above 4; c = (2, 0), of squared norm exactly 4, escapes one pass later:
\* Some(1) when the limit allows a second pass, None when the limit is 1.
ImmediateEscape ==
    Returned("escape_time") =>
        /\ Escaped(Orbit(call.c, 1)) => ret = Some(0)
        /\ norm_sqr(call.c) > Dy(4, 0) => ret = Some(0)
        /\ call.c = Two => ret = IF call.limit >= 2 THEN Some(1) ELSE None

\* escape_time has returned for c = (2, 0) with a limit of two passes or more
ImmediateEscapeWitness ==
    /\ Returned("escape_time")
    /\ call.c = Two
    /\ call.limit >= 2
    /\ ret = Some(1)

(* ==================== properties of pixel_en_point ==================== *)

\* the call of the repository's test: (100, 100), (25, 75), (-1, 1), (1, -1)
TestCall ==
    /\ bords = <<100, 100>>
    /\ call.pixel = <<25, 75>>
    /\ super_ga = Complex(Dy(-1, 0), Dy(1, 0))
    /\ infer_dr = Complex(Dy(1, 0), Dy(-1, 0))

\* C9 as stated: pixel (0, 0) maps to ul, pixel (W, H) maps to lr, and the
\* test's call yields (-0.5, -0.5).
CoordinateMappingExact ==
    Returned("pixel_en_point") =>
        /\ call.pixel = <<0, 0>> => ret = super_ga
        /\ call.pixel = bords => ret = infer_dr
        /\ TestCall => ret = Complex(Dy(-1, 1), Dy(-1, 1))

\* whether the float x lies within n units in the last place of the larger of
\* the two corner coordinates a, b from the exact num / den
Near(x, num, den, a, b, n) ==
    Abs(den * x - num) <= n * den * Ulp(Max(Abs(a), Abs(b)))

\* C9 amended: pixel (0, 0) maps to ul exactly and the test's call yields
\* (-0.5, -0.5) exactly; for every pixel of the closed range the result is the
\* rounded value of ul.re + col * (lr.re - ul.re) / W and
\* ul.im - row * (ul.im - lr.im) / H, each coordinate within 6 units in the
\* last place of the larger corner coordinate; so pixel (W, H) maps to lr up
\* to that rounding, not always to lr itself.
CoordinateMapping ==
    Returned("pixel_en_point") =>
        /\ call.pixel = <<0, 0>> => ret = super_ga
        /\ TestCall => ret = Complex(Dy(-1, 1), Dy(-1, 1))
        /\ Near(ret.re,
                bords[1] * super_ga.re + call.pixel[1] * (infer_dr.re - super_ga.re),
                bords[1], super_ga.re, infer_dr.re, 6)
        /\ Near(ret.im,
                bords[2] * super_ga.im - call.pixel[2] * (super_ga.im - infer_dr.im),
                bords[2], super_ga.im, infer_dr.im, 6)

\* the pixel one past the last column and row is mapped beside lr, not onto it
CoordinateMappingWitness ==
    /\ Returned("pixel_en_point")
    /\ call.pixel = bords
    /\ ret # infer_dr

(* ======================== properties of render ======================== *)

\* what escape_time reports for pixel (col, row) of the rendered slice
Verdict(col, row) ==
    escape_time(pixel_en_point(bords, <<col, row>>, super_ga, infer_dr), RenderLimit)

\* C8: render() leaves the slice at its length and writes every element
\* slice[row * W + col]: 0 when escape_time(point, 255) reports no escape,
\* 255 - i when it reports escape at i, where i is in 0..254, so that an
\* escaped pixel is in 1..255 and 0 marks exactly the points that did not escape.
PixelIntensity ==
    Returned("render") =>
        /\ Len(pixels) = bords[1] * bords[2]
        /\ \A col \in 0..(bords[1] - 1), row \in 0..(bords[2] - 1) :
               LET t == Verdict(col, row)
                   v == pixels[row * bords[1] + col + 1]
               IN  /\ t # None => t[1] \in 0..254
                   /\ v = IF t = None THEN 0 ELSE 255 - t[1]
                   /\ t # None => v \in 1..255
                   /\ v = 0 <=> t = None

\* a slice of several rows, filled with something else before, now holds both
\* a point that did not escape and one that did
PixelIntensityWitness ==
    /\ Returned("render")
    /\ bords[1] >= 2 /\ bords[2] >= 2
    /\ call.fill # 0
    /\ \E k \in 1..Len(pixels) : pixels[k] = 0
    /\ \E k \in 1..Len(pixels) : pixels[k] \in 1..254

====
